---- MODULE Spec2Model ----
(***************************************************************************)
(* Layered DAG layout of the compute-graph viewer (layout.js:              *)
(* computeLayout, getNodeHeight, baryPos).                                 *)
(*                                                                         *)
(* A JavaScript Map is modelled as the sequence of its entries [k, v] in   *)
(* insertion order, because the code iterates Maps (layer.forEach) and the *)
(* iteration order decides the intra-layer order.  JavaScript arrays are   *)
(* 0-based; the sequences here are 1-based, so layer l of layerNodes is    *)
(* layerNodes[l + 1].  The y coordinates are IEEE doubles in the code; they *)
(* are modelled as exact rationals [n, d] (d > 0) in lowest terms, and      *)
(* Infinity as [n |-> 1, d |-> 0].                                          *)
(***************************************************************************)
EXTENDS Integers, Sequences, FiniteSets, TLC

\* ------------------------------------------------------------------- state
\* graph is the argument of the running invocation, pc its position, result the
\* returned object, remembered what a caller kept of an earlier invocation; the
\* others are the locals of computeLayout of the same name.
\* sweepL is the loop variable l of the running crossing-minimization sweep.
VARIABLES graph, pc, pred, succ, layer, inDeg, queue, head, maxLayer,
          layerNodes, sweepL, nodeY, positions, result, remembered

\* The page around the layout: the browser's localStorage, the recent chip,
\* the fetches under way, and the arguments of the last loadGraphData call that
\* completed.
VARIABLES localStorage, recentChip, fetching, loaded

\* The view of the page: the FileReader reads under way, the load the user
\* asked for last, the size of the viewport element, the scale of the
\* transform, the zoom steps taken, the selected node and the detail panel.
VARIABLES reading, asked, viewport, scale, zooms, selectedNodeId, detailPanel

view == <<reading, asked, viewport, scale, zooms, selectedNodeId, detailPanel>>

\* The pass navigator, a page of its own: the index document and its fetch,
\* the pass dots of the timeline, the active pass, path and file, and what
\* the last rendering left in the document: the path chips, the snapshot
\* buttons that take a click, and the Open-in-Viewer button.
VARIABLES navIndex, navFetch, track, activePass, activePath, activeFile,
          pathChips, snapButtons, openBtn

nav == <<navIndex, navFetch, track, activePass, activePath, activeFile,
         pathChips, snapButtons, openBtn>>

page == <<localStorage, recentChip, fetching, loaded, view, nav>>

vars == <<graph, pc, pred, succ, layer, inDeg, queue, head, maxLayer,
          layerNodes, sweepL, nodeY, positions, result, remembered, page>>

locals == <<pred, succ, layer, inDeg, queue, head, maxLayer,
            layerNodes, sweepL, nodeY, positions>>

\* ------------------------------------------------------------------ bounds
MaxNodes == 3

MaxEdges == 3

\* The inputs of the repeated-invocation specification.
MaxNodesRepeat == 2

MaxEdgesRepeat == 1

\* The inputs of the specification with fairness.
MaxNodesFair == 2

MaxEdgesFair == 2

\* The two-column inputs of the sweeps: nodes per column, edges.
MaxHalf == 2

MaxEdgesTwoLayer == 5

\* The page: nodes of the largest document, fetches under way at once, and the
\* room of localStorage in units of one node of JSON text.
MaxDocNodes == 3

MaxFetching == 2

StorageQuota == 3

\* The view: FileReader reads under way at once, zoom steps in a row.
MaxReading == 1

MaxZooms == 2

\* The pass navigator: passes of the index, paths of a pass.
MaxPasses == 2

MaxPaths == 2

\* --------------------------------------------------------------- constants
NODE_W == 250

H_STEP == 330

V_STEP == 220

PAD == 60

DEFAULT_HEIGHT == 124

NODE_HEIGHTS == [incast |-> 200, outcast |-> 200, op |-> 148, tensor |-> 200]

getNodeHeight(type) ==
  IF type \in DOMAIN NODE_HEIGHTS THEN NODE_HEIGHTS[type] ELSE DEFAULT_HEIGHT

\* The value of a property the returned object does not have.
Undefined == "undefined"

\* ------------------------------------------------------------ JavaScript Map
MapHas(m, k) == \E i \in 1..Len(m) : m[i].k = k

MapIdx(m, k) == CHOOSE i \in 1..Len(m) : m[i].k = k

MapGet(m, k) == m[MapIdx(m, k)].v

MapSet(m, k, v) ==
  IF MapHas(m, k) THEN [m EXCEPT ![MapIdx(m, k)].v = v]
  ELSE Append(m, [k |-> k, v |-> v])

MapKeys(m) == [i \in 1..Len(m) |-> m[i].k]

MapKeySet(m) == {m[i].k : i \in 1..Len(m)}

\* new Map(entries): later entries with an equal key overwrite earlier ones.
RECURSIVE MapFrom(_, _)
MapFrom(m, entries) ==
  IF entries = <<>> THEN m
  ELSE MapFrom(MapSet(m, Head(entries).k, Head(entries).v), Tail(entries))

\* ----------------------------------------------------------------- numbers
RECURSIVE GCD(_, _)
GCD(a, b) == IF b = 0 THEN a ELSE GCD(b, a % b)

Abs(a) == IF a < 0 THEN -a ELSE a

Rat(n, d) == LET g == GCD(Abs(n), d) IN [n |-> n \div g, d |-> d \div g]

RatInt(i) == [n |-> i, d |-> 1]

Infinity == [n |-> 1, d |-> 0]

RatAdd(a, b) == Rat(a.n * b.d + b.n * a.d, a.d * b.d)

RatDiv(a, c) == Rat(a.n, a.d * c)

\* a < b on finite numbers and Infinity (Infinity < Infinity is false).
RatLt(a, b) == a.n * b.d < b.n * a.d

RatLe(a, b) == ~RatLt(b, a)

\* Math.max / Math.min of two numbers.
RatMax(a, b) == IF RatLt(a, b) THEN b ELSE a

RatMin(a, b) == IF RatLt(b, a) THEN b ELSE a

RECURSIVE SeqMaxInt(_)
SeqMaxInt(s) ==
  IF Len(s) = 1 THEN s[1]
  ELSE LET r == SeqMaxInt(Tail(s)) IN IF s[1] > r THEN s[1] ELSE r

RECURSIVE SeqMaxRat(_)
SeqMaxRat(s) ==
  IF Len(s) = 1 THEN s[1] ELSE RatMax(s[1], SeqMaxRat(Tail(s)))

\* ------------------------------------------------------------- adjacency
\* AddEdges recording the source of an edge whose target is known even when the
\* source is not a node.
RECURSIVE AddEdgesKnownTarget(_, _)
AddEdgesKnownTarget(adj, es) ==
  IF es = <<>> THEN adj
  ELSE LET e == Head(es) IN
       IF MapHas(adj.pred, e.target)
       THEN AddEdgesKnownTarget(
              [pred |-> MapSet(adj.pred, e.target,
                               Append(MapGet(adj.pred, e.target), e.source)),
               succ |-> IF MapHas(adj.succ, e.source)
                        THEN MapSet(adj.succ, e.source,
                                    Append(MapGet(adj.succ, e.source), e.target))
                        ELSE adj.succ],
              Tail(es))
       ELSE AddEdgesKnownTarget(adj, Tail(es))

\* The loop over edges: an edge is kept only when both endpoints are node ids.
RECURSIVE AddEdges(_, _)
AddEdges(adj, es) ==
  IF es = <<>> THEN adj
  ELSE LET e == Head(es) IN
       IF MapHas(adj.pred, e.target) /\ MapHas(adj.succ, e.source)
       THEN AddEdges(
              [pred |-> MapSet(adj.pred, e.target,
                               Append(MapGet(adj.pred, e.target), e.source)),
               succ |-> MapSet(adj.succ, e.source,
                               Append(MapGet(adj.succ, e.source), e.target))],
              Tail(es))
       ELSE AddEdges(adj, Tail(es))

EmptyLists(nodes) ==
  MapFrom(<<>>, [i \in 1..Len(nodes) |-> [k |-> nodes[i].id, v |-> <<>>]])

BuildAdjacency(nodes, es) ==
  AddEdges([pred |-> EmptyLists(nodes), succ |-> EmptyLists(nodes)], es)

\* -------------------------------------------------------- layer assignment
\* InitInDeg counting each predecessor once, however many edges come from it.
InitInDegDistinct(nodes, prd) ==
  MapFrom(<<>>, [i \in 1..Len(nodes) |->
                   [k |-> nodes[i].id,
                    v |-> LET ps == MapGet(prd, nodes[i].id)
                          IN Cardinality({ps[j] : j \in 1..Len(ps)})]])

\* new Map(nodes.map(n => [n.id, pred.get(n.id).length]))
InitInDeg(nodes, prd) ==
  MapFrom(<<>>, [i \in 1..Len(nodes) |->
                   [k |-> nodes[i].id, v |-> Len(MapGet(prd, nodes[i].id))]])

NodeIds(nodes) == [i \in 1..Len(nodes) |-> nodes[i].id]

SeedQueue(nodes, deg) ==
  LET IsSource(id) == MapGet(deg, id) = 0 IN SelectSeq(NodeIds(nodes), IsSource)

RECURSIVE SetAll(_, _, _)
SetAll(m, ids, v) ==
  IF ids = <<>> THEN m ELSE SetAll(MapSet(m, Head(ids), v), Tail(ids), v)

\* The layer Map kept from the previous invocation (a Map hoisted out of the
\* function and never cleared).
HoistedLayer == layer

\* const layer = new Map(): a Map local to one invocation.
NewLayer == <<>>

\* queue.forEach(id => layer.set(id, 0))
SeedLayer(lay, q) == SetAll(lay, q, 0)

\* Relax with the update dropped once the target has a layer (the first
\* proposal wins instead of the largest).
RECURSIVE RelaxFirstWins(_, _, _)
RelaxFirstWins(st, currentLayer, nexts) ==
  IF nexts = <<>> THEN st
  ELSE LET nextId == Head(nexts)
           lay == IF ~MapHas(st.layer, nextId)
                  THEN MapSet(st.layer, nextId, currentLayer + 1)
                  ELSE st.layer
           deg == MapSet(st.inDeg, nextId, MapGet(st.inDeg, nextId) - 1)
           q == IF MapGet(deg, nextId) = 0 THEN Append(st.queue, nextId)
                ELSE st.queue
       IN RelaxFirstWins([st EXCEPT !.layer = lay, !.inDeg = deg, !.queue = q],
                         currentLayer, Tail(nexts))

\* Relax proposing the layer two past the current one.
RECURSIVE RelaxSkipping(_, _, _)
RelaxSkipping(st, currentLayer, nexts) ==
  IF nexts = <<>> THEN st
  ELSE LET nextId == Head(nexts)
           proposed == currentLayer + 2
           lay == IF ~MapHas(st.layer, nextId) \/ MapGet(st.layer, nextId) < proposed
                  THEN MapSet(st.layer, nextId, proposed)
                  ELSE st.layer
           deg == MapSet(st.inDeg, nextId, MapGet(st.inDeg, nextId) - 1)
           q == IF MapGet(deg, nextId) = 0 THEN Append(st.queue, nextId)
                ELSE st.queue
       IN RelaxSkipping([st EXCEPT !.layer = lay, !.inDeg = deg, !.queue = q],
                        currentLayer, Tail(nexts))

\* Relax raising a node that already has the proposed layer by one more.
RECURSIVE RelaxRaising(_, _, _)
RelaxRaising(st, currentLayer, nexts) ==
  IF nexts = <<>> THEN st
  ELSE LET nextId == Head(nexts)
           proposed == currentLayer + 1
           lay == IF ~MapHas(st.layer, nextId) \/ MapGet(st.layer, nextId) < proposed
                  THEN MapSet(st.layer, nextId, proposed)
                  ELSE MapSet(st.layer, nextId, MapGet(st.layer, nextId) + 1)
           deg == MapSet(st.inDeg, nextId, MapGet(st.inDeg, nextId) - 1)
           q == IF MapGet(deg, nextId) = 0 THEN Append(st.queue, nextId)
                ELSE st.queue
       IN RelaxRaising([st EXCEPT !.layer = lay, !.inDeg = deg, !.queue = q],
                       currentLayer, Tail(nexts))

\* The body of the for-loop over succ.get(id), for the successors nexts.
RECURSIVE Relax(_, _, _)
Relax(st, currentLayer, nexts) ==
  IF nexts = <<>> THEN st
  ELSE LET nextId == Head(nexts)
           proposed == currentLayer + 1
           lay == IF ~MapHas(st.layer, nextId) \/ MapGet(st.layer, nextId) < proposed
                  THEN MapSet(st.layer, nextId, proposed)
                  ELSE st.layer
           deg == MapSet(st.inDeg, nextId, MapGet(st.inDeg, nextId) - 1)
           q == IF MapGet(deg, nextId) = 0 THEN Append(st.queue, nextId)
                ELSE st.queue
       IN Relax([st EXCEPT !.layer = lay, !.inDeg = deg, !.queue = q],
                currentLayer, Tail(nexts))

\* KahnStep proposing the current layer itself, without the + 1.
KahnStepSameLayer(st, sc) ==
  LET id == st.queue[st.head + 1] IN
  Relax([st EXCEPT !.head = st.head + 1], MapGet(st.layer, id) - 1, MapGet(sc, id))

\* KahnStep with head++ left out for a node without successors: such a node
\* stays at the head of the queue.
KahnStepSinkStays(st, sc) ==
  LET id == st.queue[st.head + 1] IN
  IF MapGet(sc, id) = <<>> THEN st
  ELSE Relax([st EXCEPT !.head = st.head + 1], MapGet(st.layer, id), MapGet(sc, id))

\* One iteration of while (head < queue.length); head counts from 0.
KahnStep(st, sc) ==
  LET id == st.queue[st.head + 1] IN
  Relax([st EXCEPT !.head = st.head + 1], MapGet(st.layer, id), MapGet(sc, id))

RECURSIVE KahnLoop(_, _)
KahnLoop(st, sc) ==
  IF st.head < Len(st.queue) THEN KahnLoop(KahnStep(st, sc), sc) ELSE st

\* FallbackLayers resetting every node the queue never held, whether or not a
\* layer was proposed to it.  It reads the queue of the running invocation.
RECURSIVE FallbackUnqueued(_, _)
FallbackUnqueued(lay, ids) ==
  IF ids = <<>> THEN lay
  ELSE FallbackUnqueued(
         IF \E i \in 1..Len(queue) : queue[i] = Head(ids) THEN lay
         ELSE MapSet(lay, Head(ids), 0), Tail(ids))

\* Nodes the queue never reached get layer 0.
RECURSIVE FallbackLayers(_, _)
FallbackLayers(lay, ids) ==
  IF ids = <<>> THEN lay
  ELSE FallbackLayers(IF MapHas(lay, Head(ids)) THEN lay
                      ELSE MapSet(lay, Head(ids), 0), Tail(ids))

MapValues(m) == [i \in 1..Len(m) |-> m[i].v]

MaxLayerOf(lay) == SeqMaxInt(MapValues(lay))

\* GroupByLayer with unshift for push: each layer in reverse insertion order.
GroupByLayerReversed(lay, maxL) ==
  [l1 \in 1..(maxL + 1) |->
     LET InLayer(id) == MapGet(lay, id) = l1 - 1
         ids == SelectSeq(MapKeys(lay), InLayer)
     IN [i \in 1..Len(ids) |-> ids[Len(ids) + 1 - i]]]

\* layer.forEach((l, id) => layerNodes[l].push(id)): Map insertion order.
GroupByLayer(lay, maxL) ==
  [l1 \in 1..(maxL + 1) |->
     LET InLayer(id) == MapGet(lay, id) = l1 - 1 IN SelectSeq(MapKeys(lay), InLayer)]

\* ---------------------------------------------------- crossing minimization
LayerAt(ln, l) == ln[l + 1]

\* new Map(layerNodes[l].map((id, i) => [id, i])), i counting from 0.
IndexMap(ids) == MapFrom(<<>>, [i \in 1..Len(ids) |-> [k |-> ids[i], v |-> i - 1]])

RECURSIVE BarySum(_, _, _)
BarySum(acc, nbrs, adjPos) ==
  IF nbrs = <<>> THEN acc
  ELSE BarySum(IF MapHas(adjPos, Head(nbrs))
               THEN [sum |-> acc.sum + MapGet(adjPos, Head(nbrs)),
                     count |-> acc.count + 1]
               ELSE acc, Tail(nbrs), adjPos)

baryPos(nodeId, neighbors, prevPositions) ==
  LET nbrs == IF MapHas(neighbors, nodeId) THEN MapGet(neighbors, nodeId) ELSE <<>>
      r == BarySum([sum |-> 0, count |-> 0], nbrs, prevPositions)
  IN IF nbrs = <<>> THEN Infinity
     ELSE IF r.count > 0 THEN Rat(r.sum, r.count) ELSE Infinity

\* The sign of the comparator's result a - b; Infinity - Infinity is NaN, which
\* Array.prototype.sort reads as +0.
CompareBary(a, b) ==
  IF a = Infinity /\ b = Infinity THEN 0
  ELSE IF RatLt(a, b) THEN -1
  ELSE IF RatLt(b, a) THEN 1
  ELSE 0

\* InsertSorted of a sort that is not stable: x goes ahead of its equals.
RECURSIVE InsertSortedAheadOfTies(_, _, _, _)
InsertSortedAheadOfTies(sorted, x, neighbors, adjPos) ==
  IF sorted = <<>> THEN <<x>>
  ELSE IF CompareBary(baryPos(Head(sorted), neighbors, adjPos),
                      baryPos(x, neighbors, adjPos)) >= 0
       THEN <<x>> \o sorted
       ELSE <<Head(sorted)>> \o
            InsertSortedAheadOfTies(Tail(sorted), x, neighbors, adjPos)

\* Array.prototype.sort is stable: x goes behind every element not greater.
RECURSIVE InsertSorted(_, _, _, _)
InsertSorted(sorted, x, neighbors, adjPos) ==
  IF sorted = <<>> THEN <<x>>
  ELSE IF CompareBary(baryPos(Head(sorted), neighbors, adjPos),
                      baryPos(x, neighbors, adjPos)) > 0
       THEN <<x>> \o sorted
       ELSE <<Head(sorted)>> \o InsertSorted(Tail(sorted), x, neighbors, adjPos)

RECURSIVE SortFrom(_, _, _, _)
SortFrom(sorted, rest, neighbors, adjPos) ==
  IF rest = <<>> THEN sorted
  ELSE SortFrom(InsertSorted(sorted, Head(rest), neighbors, adjPos),
                Tail(rest), neighbors, adjPos)

SortLayer(ids, neighbors, adjPos) == SortFrom(<<>>, ids, neighbors, adjPos)

\* SortForward storing the sorted layer l in slot l - 1.
SortForwardMisplaced(ln, prd, l) ==
  [ln EXCEPT ![l] = SortLayer(LayerAt(ln, l), prd, IndexMap(LayerAt(ln, l - 1)))]

\* The body of a forward loop: sort layer l by its predecessors in layer l - 1.
SortForward(ln, prd, l) ==
  [ln EXCEPT ![l + 1] = SortLayer(LayerAt(ln, l), prd, IndexMap(LayerAt(ln, l - 1)))]

\* for (l = from; l <= maxLayer; l++)
RECURSIVE ForwardFrom(_, _, _, _)
ForwardFrom(ln, prd, l, maxL) ==
  IF l > maxL THEN ln
  ELSE ForwardFrom(SortForward(ln, prd, l), prd, l + 1, maxL)

ForwardSweep(ln, prd, maxL) == ForwardFrom(ln, prd, 1, maxL)

\* The body of the backward loop: sort layer l by its successors in layer l + 1.
SortBackward(ln, sc, l) ==
  [ln EXCEPT ![l + 1] = SortLayer(LayerAt(ln, l), sc, IndexMap(LayerAt(ln, l + 1)))]

\* for (l = from; l >= 0; l--)
RECURSIVE BackwardFrom(_, _, _)
BackwardFrom(ln, sc, l) ==
  IF l < 0 THEN ln
  ELSE BackwardFrom(SortBackward(ln, sc, l), sc, l - 1)

BackwardSweep(ln, sc, maxL) == BackwardFrom(ln, sc, maxL - 1)

\* ---------------------------------------------------- coordinate assignment
\* layerX stepping by the node width instead of the column step.
layerXByWidth(l) == PAD + l * NODE_W

layerX(l) == PAD + l * H_STEP

RECURSIVE SumY(_, _)
SumY(ids, ys) ==
  IF ids = <<>> THEN RatInt(0) ELSE RatAdd(MapGet(ys, Head(ids)), SumY(Tail(ids), ys))

Placed(nbrs, ys) == LET Has(p) == MapHas(ys, p) IN SelectSeq(nbrs, Has)

\* MeanY taking the y of the first neighbour for the mean of all of them.
MeanYOfFirst(ids, ys) == MapGet(ys, Head(ids))

MeanY(ids, ys) == RatDiv(SumY(ids, ys), Len(ids))

NeighboursOf(m, id) == IF MapHas(m, id) THEN MapGet(m, id) ELSE <<>>

\* PlaceLayer putting a node with predecessors at their mean, cursor ignored.
RECURSIVE PlaceLayerAtIdeal(_, _, _, _)
PlaceLayerAtIdeal(ys, ids, cursor, prd) ==
  IF ids = <<>> THEN ys
  ELSE LET id == Head(ids)
           placedPreds == Placed(NeighboursOf(prd, id), ys)
           y == IF placedPreds # <<>> THEN MeanY(placedPreds, ys) ELSE cursor
       IN PlaceLayerAtIdeal(MapSet(ys, id, y), Tail(ids),
                            RatAdd(y, RatInt(V_STEP)), prd)

\* The inner loop of the top-down pass over one layer, from cursor on.
RECURSIVE PlaceLayer(_, _, _, _)
PlaceLayer(ys, ids, cursor, prd) ==
  IF ids = <<>> THEN ys
  ELSE LET id == Head(ids)
           placedPreds == Placed(NeighboursOf(prd, id), ys)
           y == IF placedPreds # <<>> THEN RatMax(cursor, MeanY(placedPreds, ys))
                ELSE cursor
       IN PlaceLayer(MapSet(ys, id, y), Tail(ids), RatAdd(y, RatInt(V_STEP)), prd)

\* PassAFrom with one cursor for all layers: a layer starts V_STEP below the
\* last node of the layer before it.
RECURSIVE PassAFromKeepCursor(_, _, _, _, _)
PassAFromKeepCursor(ys, ln, prd, l, maxL) ==
  IF l > maxL THEN ys
  ELSE LET before == IF l = 0 THEN <<>> ELSE LayerAt(ln, l - 1)
           cursor == IF before = <<>> THEN RatInt(PAD)
                     ELSE RatAdd(MapGet(ys, before[Len(before)]), RatInt(V_STEP))
       IN PassAFromKeepCursor(PlaceLayer(ys, LayerAt(ln, l), cursor, prd),
                              ln, prd, l + 1, maxL)

\* for (l = 0; l <= maxLayer; l++) { let cursor = PAD; ... }
RECURSIVE PassAFrom(_, _, _, _, _)
PassAFrom(ys, ln, prd, l, maxL) ==
  IF l > maxL THEN ys
  ELSE PassAFrom(PlaceLayer(ys, LayerAt(ln, l), RatInt(PAD), prd),
                 ln, prd, l + 1, maxL)

PassA(ln, prd, maxL) == PassAFrom(<<>>, ln, prd, 0, maxL)

\* PullLayer moving every node with successors onto their mean, with no regard
\* for the node below it.
RECURSIVE PullLayerToIdeal(_, _, _, _, _)
PullLayerToIdeal(ys, ids, i, ceiling, sc) ==
  IF i < 1 THEN ys
  ELSE LET id == ids[i]
           placedSuccs == Placed(NeighboursOf(sc, id), ys)
           ys2 == IF placedSuccs = <<>> THEN ys
                  ELSE MapSet(ys, id, MeanY(placedSuccs, ys))
       IN PullLayerToIdeal(ys2, ids, i - 1, MapGet(ys2, id), sc)

\* PullLayer moving a node down to maxY where the code leaves it in place.
RECURSIVE PullLayerDown(_, _, _, _, _)
PullLayerDown(ys, ids, i, ceiling, sc) ==
  IF i < 1 THEN ys
  ELSE LET id == ids[i]
           placedSuccs == Placed(NeighboursOf(sc, id), ys)
           ideal == MeanY(placedSuccs, ys)
           maxY == IF ceiling = Infinity THEN ideal
                   ELSE RatMin(ideal, RatAdd(ceiling, RatInt(-V_STEP)))
           ys2 == IF placedSuccs = <<>> THEN ys
                  ELSE MapSet(ys, id, RatMax(MapGet(ys, id), maxY))
       IN PullLayerDown(ys2, ids, i - 1, MapGet(ys2, id), sc)

\* The inner loop of the backward pass: ids[i], ids[i-1], ..., with i from 1.
RECURSIVE PullLayer(_, _, _, _, _)
PullLayer(ys, ids, i, ceiling, sc) ==
  IF i < 1 THEN ys
  ELSE LET id == ids[i]
           placedSuccs == Placed(NeighboursOf(sc, id), ys)
           ideal == MeanY(placedSuccs, ys)
           maxY == IF ceiling = Infinity THEN ideal
                   ELSE RatMin(ideal, RatAdd(ceiling, RatInt(-V_STEP)))
           ys2 == IF placedSuccs = <<>> THEN ys
                  ELSE IF RatLt(MapGet(ys, id), maxY) THEN ys
                  ELSE MapSet(ys, id,
                         RatMax(MapGet(ys, id),
                                IF RatLt(maxY, RatInt(PAD)) THEN RatInt(PAD) ELSE maxY))
       IN PullLayer(ys2, ids, i - 1, MapGet(ys2, id), sc)

RECURSIVE PassBFrom(_, _, _, _)
PassBFrom(ys, ln, sc, l) ==
  IF l < 0 THEN ys
  ELSE PassBFrom(PullLayer(ys, LayerAt(ln, l), Len(LayerAt(ln, l)), Infinity, sc),
                 ln, sc, l - 1)

PassB(ys, ln, sc, maxL) == PassBFrom(ys, ln, sc, maxL - 1)

NodeMap(nodes) ==
  MapFrom(<<>>, [i \in 1..Len(nodes) |-> [k |-> nodes[i].id, v |-> nodes[i]]])

RECURSIVE PositionLayer(_, _, _, _, _)
PositionLayer(pos, ids, l, ys, nodeMap) ==
  IF ids = <<>> THEN pos
  ELSE LET id == Head(ids)
           type == IF MapHas(nodeMap, id) THEN MapGet(nodeMap, id).type ELSE Undefined
       IN PositionLayer(
            MapSet(pos, id, [x |-> layerX(l),
                             y |-> IF MapHas(ys, id) THEN MapGet(ys, id) ELSE RatInt(PAD),
                             w |-> NODE_W,
                             h |-> getNodeHeight(type)]),
            Tail(ids), l, ys, nodeMap)

RECURSIVE PositionsFrom(_, _, _, _, _, _)
PositionsFrom(pos, ln, ys, nodeMap, l, maxL) ==
  IF l > maxL THEN pos
  ELSE PositionsFrom(PositionLayer(pos, LayerAt(ln, l), l, ys, nodeMap),
                     ln, ys, nodeMap, l + 1, maxL)

\* BuildPositions with the loop bound l < maxLayer: the last layer is skipped.
BuildPositionsSkipLast(ln, ys, nodes, maxL) ==
  PositionsFrom(<<>>, ln, ys, NodeMap(nodes), 0, maxL - 1)

BuildPositions(ln, ys, nodes, maxL) ==
  PositionsFrom(<<>>, ln, ys, NodeMap(nodes), 0, maxL)

\* ------------------------------------------------------------------ canvas
Bottoms(pos) == [i \in 1..Len(pos) |-> RatAdd(pos[i].v.y, RatInt(pos[i].v.h))]

\* CanvasW ending at the right edge of the last column, with no margin.
CanvasWNoMargin(maxL) == PAD + maxL * H_STEP + NODE_W

CanvasW(maxL) == PAD * 2 + (maxL + 1) * H_STEP

\* CanvasH from the bottom of the node positioned last, not the lowest bottom.
CanvasHOfLast(pos) ==
  RatAdd(RatAdd(pos[Len(pos)].v.y, RatInt(pos[Len(pos)].v.h)), RatInt(PAD))

\* maxNodeBottom + PAD
CanvasH(pos) == RatAdd(SeqMaxRat(Bottoms(pos)), RatInt(PAD))

EmptyResult ==
  [positions |-> <<>>, layerNodes |-> <<>>, maxLayer |-> 0,
   canvasW |-> Undefined, canvasH |-> Undefined]

\* ------------------------------------------------------- the whole function
\* One invocation as a function of the graph: the composition of the phases,
\* with the layer Map next to the returned object.
Run(g) ==
  IF Len(g.nodes) = 0 THEN [layer |-> <<>>, result |-> EmptyResult]
  ELSE LET adj == BuildAdjacency(g.nodes, g.edges)
           deg == InitInDeg(g.nodes, adj.pred)
           q == SeedQueue(g.nodes, deg)
           st == KahnLoop([layer |-> SeedLayer(<<>>, q), inDeg |-> deg,
                           queue |-> q, head |-> 0], adj.succ)
           lay == FallbackLayers(st.layer, NodeIds(g.nodes))
           maxL == MaxLayerOf(lay)
           ln0 == GroupByLayer(lay, maxL)
           ln1 == ForwardSweep(ln0, adj.pred, maxL)
           ln2 == BackwardSweep(ln1, adj.succ, maxL)
           ln3 == ForwardSweep(ln2, adj.pred, maxL)
           ys == PassB(PassA(ln3, adj.pred, maxL), ln3, adj.succ, maxL)
           pos == BuildPositions(ln3, ys, g.nodes, maxL)
       IN [layer |-> lay,
           result |-> [positions |-> pos, layerNodes |-> ln3, maxLayer |-> maxL,
                       canvasW |-> CanvasW(maxL), canvasH |-> CanvasH(pos)]]

ComputeLayout(g) == Run(g).result

\* ------------------------------------------------------------------ inputs
Kinds == <<"incast", "outcast", "op", "tensor", "other">>

\* Node ids are 1..n in declaration order; kinds rotate from a chosen start.
NodesOf(n, shift) ==
  [i \in 1..n |-> [id |-> i, type |-> Kinds[((i - 1 + shift) % Len(Kinds)) + 1]]]

KindShifts == {0, 2}

\* The graphs of n nodes and m edges; edge endpoints range over lo..n: the node
\* ids and, for lo = 0, the unknown id 0.
GraphsOf(n, m, shifts, lo) ==
  {[nodes |-> NodesOf(n, sh), edges |-> es] :
     sh \in shifts, es \in [1..m -> [source : lo..n, target : lo..n]]}

\* The graphs of two columns of k nodes each, with m edges from the first column
\* to the second, repeated edges included.
TwoLayerGraphs(k, m) ==
  {[nodes |-> NodesOf(2 * k, 0), edges |-> es] :
     es \in [1..m -> [source : 1..k, target : (k + 1)..(2 * k)]]}

\* ---------------------------------------------------------------- the page
LS_JSON == "pto_last_json"
LS_NAME == "pto_last_name"

\* A string is modelled by its text and the room it takes in storage; a name
\* takes one unit.
Name(text) == [text |-> text, length |-> 1]

\* null where a string is expected.
Null == [text |-> Undefined, length |-> 0]

\* JSON.stringify(data): a text as long as the document has nodes.
JSONStringify(data) == [text |-> data, length |-> Len(data.nodes)]

\* JSON.parse of a text made by JSON.stringify.
JSONParse(str) == str.text

RECURSIVE StoredLength(_)
StoredLength(store) ==
  IF store = <<>> THEN 0 ELSE Head(store).v.length + StoredLength(Tail(store))

\* localStorage.setItem(k, v): throws, storing nothing, when the values would
\* outgrow the quota.
SetItem(store, k, v) ==
  LET new == MapSet(store, k, v) IN
  IF StoredLength(new) > StorageQuota THEN [threw |-> TRUE, store |-> store]
  ELSE [threw |-> FALSE, store |-> new]

\* localStorage.getItem(k): null for a key never stored.
GetItem(store, k) == IF MapHas(store, k) THEN MapGet(store, k) ELSE Null

RawKinds == <<"Incast", "Outcast", "Operation", "Tensor", "Other">>

\* TYPE_MAP[n.type] || 'tensor'
TYPE_MAP(raw) ==
  CASE raw = "Operation" -> "op" [] raw = "Tensor" -> "tensor"
    [] raw = "Incast" -> "incast" [] raw = "Outcast" -> "outcast"
    [] OTHER -> "tensor"

\* parseGraph on a document of the sample format: nodes and edges.
ParseGraph(data) ==
  [nodes |-> [i \in 1..Len(data.nodes) |->
                [id |-> data.nodes[i].id, type |-> TYPE_MAP(data.nodes[i].type)]],
   edges |-> [i \in 1..Len(data.edges) |->
                [source |-> data.edges[i].source, target |-> data.edges[i].target]]]

\* graph.meta.name
MetaName(data) ==
  IF data.graph_name # Undefined THEN Name(data.graph_name) ELSE Name("graph")

\* The documents a user can open: the chain of n nodes, named or not.
Document(n, graphName) ==
  [graph_name |-> graphName,
   nodes |-> [i \in 1..n |-> [id |-> i, type |-> RawKinds[((i - 1) % 5) + 1]]],
   edges |-> [i \in 1..(n - 1) |-> [source |-> i, target |-> i + 1]]]

Documents == {Document(n, gn) : n \in 1..MaxDocNodes, gn \in {Undefined, "pass"}}

\* The samples of the page, each with the label of its chip.
Samples ==
  {[data |-> Document(1, "pass"), label |-> Name("sample-1")],
   [data |-> Document(2, "pass"), label |-> Name("sample-2")]}

\* The sample fetched when the page opens without ?file=.
DefaultSample == [data |-> Document(2, "pass"), label |-> Name("LOOP_RESHAPE")]

FileNames == {Name("a.json"), Name("b.json")}

HiddenChip == [text |-> Null, hidden |-> TRUE]

\* ---------------------------------------------------------------- the view
SCALE_MIN == Rat(6, 100)

SCALE_MAX == RatInt(4)

RatMul(a, b) == Rat(a.n * b.n, a.d * b.d)

\* viewport.clientWidth and viewport.clientHeight: a window of common size
\* and a narrow one.
DefaultViewport == [w |-> 1280, h |-> 720]

Viewports == {DefaultViewport, [w |-> 120, h |-> 720]}

\* The factors of zoomAround: the zoom buttons (1.25, 0.8) and two pinches
\* (dist / lastPinchDist), one opening and one closing; the wheel (1.12, 0.89)
\* and the keys (1.2, 1/1.2) call zoomAround in the same way.
Factors == {Rat(5, 4), Rat(4, 5), RatInt(50), Rat(1, 50)}

\* fitView: the scale it sets for the layout res of the graph g in the
\* viewport vp; old where layout.canvasW is undefined.
fitView(res, g, vp, old) ==
  IF Len(g.nodes) = 0 THEN old
  ELSE RatMin(RatMin(Rat(vp.w - 48 * 2, res.canvasW),
                     Rat((vp.h - 48 * 2) * res.canvasH.d, res.canvasH.n)),
              RatInt(1))

\* zoomAround: ns = Math.max(SCALE_MIN, Math.min(SCALE_MAX, scale * factor))
zoomAround(old, factor) == RatMax(SCALE_MIN, RatMin(SCALE_MAX, RatMul(old, factor)))

\* selectedNodeId = null
NoNode == 0

\* The detail panel before any node was opened.
ClosedPanel == [open |-> FALSE, node |-> <<>>, nav |-> {}]

\* openDetail(node): the panel shows node, with navigation chips that name
\* nodes of the graph g it was built from.
openDetail(node, g) ==
  [open |-> TRUE, node |-> <<node>>,
   nav |-> {g.nodes[i].id : i \in 1..Len(g.nodes)} \ {node.id}]

\* The arguments a loadGraphData call leaves on display: the data and
\* fileName || graph.meta.name.
LoadedAs(data, fileName) ==
  [data |-> data, name |-> IF fileName # Null THEN fileName ELSE MetaName(data)]

ViewIdle ==
  /\ reading = {} /\ asked = <<>>
  /\ viewport = DefaultViewport /\ scale = RatInt(1) /\ zooms = 0
  /\ selectedNodeId = NoNode /\ detailPanel = ClosedPanel

\* ------------------------------------------------------ the pass navigator
\* A file path is a number, 0 standing for null: the code only tests a path
\* for being falsy and for identity.
NoFile == 0

File(p, q, k) == 1000 + 100 * p + 10 * q + k

\* The snapshot lists scan_passes writes for path q of pass p: a main snapshot
\* with both files, a main snapshot whose After file is missing, and a ROOT
\* snapshot followed by a LEAF snapshot.
SnapshotLists(p, q) ==
  {<<[snap_type |-> "main", before |-> File(p, q, 0), after |-> File(p, q, 1)]>>,
   <<[snap_type |-> "main", before |-> File(p, q, 0), after |-> NoFile]>>,
   <<[snap_type |-> "ROOT", before |-> File(p, q, 0), after |-> File(p, q, 1)],
     [snap_type |-> "LEAF", before |-> File(p, q, 2), after |-> File(p, q, 3)]>>}

PathsOf(p) ==
  UNION {{paths \in [1..n -> UNION {SnapshotLists(p, q) : q \in 1..n}] :
            \A q \in 1..n : paths[q] \in SnapshotLists(p, q)} : n \in 0..MaxPaths}

\* The pass p with the snapshot lists of its paths.
Pass(p, lists) ==
  [pass_index |-> p,
   paths |-> [q \in 1..Len(lists) |-> [path_id |-> q, snapshots |-> lists[q]]]]

\* The nav_index.json documents: 1..MaxPasses passes of 0..MaxPaths paths each.
NavIndexes ==
  UNION {{[passes |-> [p \in 1..n |-> Pass(p, lists[p])]] :
            lists \in {f \in [1..n -> UNION {PathsOf(p) : p \in 1..n}] :
                         \A p \in 1..n : f[p] \in PathsOf(p)}} : n \in 1..MaxPasses}

\* renderSnaps: the files of the buttons that take a click, for the active
\* path (none without one): Before and After of every main, ROOT and LEAF
\* snapshot, a button without a file being disabled.
renderSnaps(path) ==
  IF path = <<>> THEN {}
  ELSE LET snaps == path[1].snapshots
           Shown(i) == snaps[i].snap_type \in {"main", "ROOT", "LEAF"}
       IN UNION {{snaps[i].before, snaps[i].after} :
                   i \in {j \in 1..Len(snaps) : Shown(j)}} \ {NoFile}

\* updateFilePreview: the Open-in-Viewer button for the active file.
updateFilePreview(file) ==
  IF file # NoFile THEN [disabled |-> FALSE, file |-> file]
  ELSE [disabled |-> TRUE, file |-> NoFile]

\* The Open-in-Viewer button as the markup of the navigator page gives it:
\* disabled, naming no file.
OpenBtnMarkup == [disabled |-> TRUE, file |-> NoFile]

\* The navigator before its script has fetched the index.
NavIdle ==
  /\ navIndex = <<>> /\ navFetch = <<>> /\ track = 0
  /\ activePass = <<>> /\ activePath = <<>> /\ activeFile = NoFile
  /\ pathChips = <<>> /\ snapButtons = {}
  /\ openBtn = OpenBtnMarkup

\* The page of a specification that follows computeLayout only.
PageIdle ==
  /\ localStorage = <<>> /\ recentChip = HiddenChip
  /\ fetching = {} /\ loaded = <<>>
  /\ ViewIdle /\ NavIdle

\* ----------------------------------------------------------- entry and steps
None == "none"

Entered(g) ==
  /\ graph = g
  /\ pc = "call"
  /\ pred = <<>> /\ succ = <<>> /\ layer = <<>> /\ inDeg = <<>>
  /\ queue = <<>> /\ head = 0 /\ maxLayer = 0
  /\ layerNodes = <<>> /\ sweepL = 0 /\ nodeY = <<>> /\ positions = <<>>
  /\ result = None

Init ==
  \E n \in 0..MaxNodes, m \in 0..MaxEdges :
    \E g \in GraphsOf(n, m, KindShifts, 0) : Entered(g) /\ remembered = <<>> /\ PageIdle

\* if (nodes.length === 0) return { positions, layerNodes: [], maxLayer: 0 }
ReturnEmpty ==
  /\ pc = "call" /\ Len(graph.nodes) = 0
  /\ result' = EmptyResult
  /\ pc' = "done"
  /\ UNCHANGED <<graph, locals, remembered, page>>

\* Adjacency that also deletes the edges it skips from the caller's edge list.
AdjacencyPruning ==
  /\ pc = "call" /\ Len(graph.nodes) > 0
  /\ LET adj == BuildAdjacency(graph.nodes, graph.edges)
         Known(e) == MapHas(adj.pred, e.target) /\ MapHas(adj.succ, e.source)
     IN /\ pred' = adj.pred /\ succ' = adj.succ
        /\ graph' = [graph EXCEPT !.edges = SelectSeq(graph.edges, Known)]
  /\ pc' = "seed"
  /\ UNCHANGED <<layer, inDeg, queue, head, maxLayer, layerNodes, sweepL, nodeY,
                 positions, result, remembered, page>>

Adjacency ==
  /\ pc = "call" /\ Len(graph.nodes) > 0
  /\ LET adj == BuildAdjacency(graph.nodes, graph.edges) IN
       pred' = adj.pred /\ succ' = adj.succ
  /\ pc' = "seed"
  /\ UNCHANGED <<graph, layer, inDeg, queue, head, maxLayer, layerNodes, sweepL, nodeY,
                 positions, result, remembered, page>>

Seed ==
  /\ pc = "seed"
  /\ inDeg' = InitInDeg(graph.nodes, pred)
  /\ queue' = SeedQueue(graph.nodes, inDeg')
  /\ layer' = SeedLayer(layer, queue')
  /\ head' = 0
  /\ pc' = "kahn"
  /\ UNCHANGED <<graph, pred, succ, maxLayer, layerNodes, sweepL, nodeY, positions,
                 result, remembered, page>>

Dequeue ==
  /\ pc = "kahn" /\ head < Len(queue)
  /\ LET st == KahnStep([layer |-> layer, inDeg |-> inDeg, queue |-> queue,
                         head |-> head], succ) IN
       /\ layer' = st.layer /\ inDeg' = st.inDeg
       /\ queue' = st.queue /\ head' = st.head
  /\ UNCHANGED <<graph, pc, pred, succ, maxLayer, layerNodes, sweepL, nodeY, positions,
                 result, remembered, page>>

Fallback ==
  /\ pc = "kahn" /\ ~(head < Len(queue))
  /\ layer' = FallbackLayers(layer, NodeIds(graph.nodes))
  /\ maxLayer' = MaxLayerOf(layer')
  /\ pc' = "group"
  /\ UNCHANGED <<graph, pred, succ, inDeg, queue, head, layerNodes, sweepL, nodeY,
                 positions, result, remembered, page>>

Group ==
  /\ pc = "group"
  /\ layerNodes' = GroupByLayer(layer, maxLayer)
  /\ pc' = "forward1" /\ sweepL' = 1
  /\ UNCHANGED <<graph, pred, succ, layer, inDeg, queue, head, maxLayer, nodeY,
                 positions, result, remembered, page>>

\* One iteration of the first forward loop.
Forward1 ==
  /\ pc = "forward1" /\ sweepL <= maxLayer
  /\ layerNodes' = SortForward(layerNodes, pred, sweepL)
  /\ sweepL' = sweepL + 1
  /\ UNCHANGED <<graph, pc, pred, succ, layer, inDeg, queue, head, maxLayer,
                 nodeY, positions, result, remembered, page>>

\* The first forward loop ends; the backward loop starts at maxLayer - 1.
Forward1End ==
  /\ pc = "forward1" /\ ~(sweepL <= maxLayer)
  /\ pc' = "backward" /\ sweepL' = maxLayer - 1
  /\ UNCHANGED <<graph, pred, succ, layer, inDeg, queue, head, maxLayer,
                 layerNodes, nodeY, positions, result, remembered, page>>

\* One iteration of the backward loop.
Backward ==
  /\ pc = "backward" /\ sweepL >= 0
  /\ layerNodes' = SortBackward(layerNodes, succ, sweepL)
  /\ sweepL' = sweepL - 1
  /\ UNCHANGED <<graph, pc, pred, succ, layer, inDeg, queue, head, maxLayer,
                 nodeY, positions, result, remembered, page>>

\* BackwardEnd going straight on to the y assignment: two sweeps, not three.
BackwardEndToPassA ==
  /\ pc = "backward" /\ ~(sweepL >= 0)
  /\ pc' = "passA" /\ sweepL' = 1
  /\ UNCHANGED <<graph, pred, succ, layer, inDeg, queue, head, maxLayer,
                 layerNodes, nodeY, positions, result, remembered, page>>

\* The backward loop ends; the second forward loop starts at 1.
BackwardEnd ==
  /\ pc = "backward" /\ ~(sweepL >= 0)
  /\ pc' = "forward2" /\ sweepL' = 1
  /\ UNCHANGED <<graph, pred, succ, layer, inDeg, queue, head, maxLayer,
                 layerNodes, nodeY, positions, result, remembered, page>>

\* One iteration of the second forward loop.
Forward2 ==
  /\ pc = "forward2" /\ sweepL <= maxLayer
  /\ layerNodes' = SortForward(layerNodes, pred, sweepL)
  /\ sweepL' = sweepL + 1
  /\ UNCHANGED <<graph, pc, pred, succ, layer, inDeg, queue, head, maxLayer,
                 nodeY, positions, result, remembered, page>>

\* The second forward loop ends: crossing minimization is over.
Forward2End ==
  /\ pc = "forward2" /\ ~(sweepL <= maxLayer)
  /\ pc' = "passA"
  /\ UNCHANGED <<graph, pred, succ, layer, inDeg, queue, head, maxLayer,
                 layerNodes, sweepL, nodeY, positions, result, remembered, page>>

TopDown ==
  /\ pc = "passA"
  /\ nodeY' = PassA(layerNodes, pred, maxLayer)
  /\ pc' = "passB"
  /\ UNCHANGED <<graph, pred, succ, layer, inDeg, queue, head, maxLayer,
                 layerNodes, sweepL, positions, result, remembered, page>>

PullBack ==
  /\ pc = "passB"
  /\ nodeY' = PassB(nodeY, layerNodes, succ, maxLayer)
  /\ pc' = "positions"
  /\ UNCHANGED <<graph, pred, succ, layer, inDeg, queue, head, maxLayer,
                 layerNodes, sweepL, positions, result, remembered, page>>

Positions ==
  /\ pc = "positions"
  /\ positions' = BuildPositions(layerNodes, nodeY, graph.nodes, maxLayer)
  /\ pc' = "canvas"
  /\ UNCHANGED <<graph, pred, succ, layer, inDeg, queue, head, maxLayer,
                 layerNodes, sweepL, nodeY, result, remembered, page>>

Return ==
  /\ pc = "canvas"
  /\ result' = [positions |-> positions, layerNodes |-> layerNodes,
                maxLayer |-> maxLayer, canvasW |-> CanvasW(maxLayer),
                canvasH |-> CanvasH(positions)]
  /\ pc' = "done"
  /\ UNCHANGED <<graph, locals, remembered, page>>

Next ==
  \/ ReturnEmpty \/ Adjacency \/ Seed \/ Dequeue \/ Fallback \/ Group
  \/ Forward1 \/ Forward1End \/ Backward \/ BackwardEnd \/ Forward2
  \/ Forward2End \/ TopDown \/ PullBack \/ Positions \/ Return

Spec == Init /\ [][Next]_vars

\* --------------------------------------------------- repeated invocations
\* A later call of computeLayout: every local of the function is new.
CallAgain(g) ==
  /\ pc = "done"
  /\ graph' = g
  /\ pc' = "call"
  /\ pred' = <<>> /\ succ' = <<>> /\ layer' = NewLayer /\ inDeg' = <<>>
  /\ queue' = <<>> /\ head' = 0 /\ maxLayer' = 0
  /\ layerNodes' = <<>> /\ sweepL' = 0 /\ nodeY' = <<>> /\ positions' = <<>>
  /\ result' = None
  /\ remembered' = IF remembered = <<>> THEN <<>>
                   ELSE [remembered EXCEPT ![1].later = IF @ < 2 THEN @ + 1 ELSE @]
  /\ UNCHANGED page

\* The observer keeps one returned value (remembered is empty or holds it) to
\* compare later returns with; later counts the calls made since, up to 2.
Remember ==
  /\ pc = "done" /\ remembered = <<>>
  /\ remembered' = <<[graph |-> graph, layer |-> layer, result |-> result,
                       later |-> 0]>>
  /\ UNCHANGED <<graph, pc, locals, result, page>>

InitRepeat ==
  \E n \in 0..MaxNodesRepeat, m \in 0..MaxEdgesRepeat :
    \E g \in GraphsOf(n, m, {0}, 1) : Entered(g) /\ remembered = <<>> /\ PageIdle

NextRepeat ==
  \/ ReturnEmpty \/ Adjacency \/ Seed \/ Dequeue \/ Fallback \/ Group
  \/ Forward1 \/ Forward1End \/ Backward \/ BackwardEnd \/ Forward2
  \/ Forward2End \/ TopDown \/ PullBack \/ Positions \/ Return
  \/ Remember
  \/ \E n \in 0..MaxNodesRepeat, m \in 0..MaxEdgesRepeat :
       \E g \in GraphsOf(n, m, {0}, 1) : CallAgain(g)

SpecRepeat == InitRepeat /\ [][NextRepeat]_vars

\* One call that, once entered, keeps taking steps until none is left:
\* JavaScript runs a synchronous function to completion.
InitFair ==
  \E n \in 0..MaxNodesFair, m \in 0..MaxEdgesFair :
    \E g \in GraphsOf(n, m, KindShifts, 0) : Entered(g) /\ remembered = <<>> /\ PageIdle

SpecFair == InitFair /\ [][Next]_vars /\ WF_vars(Next)

\* One call on the graphs of Init or on a two-column graph with repeated edges.
InitSweeps ==
  \/ Init
  \/ \E k \in 0..MaxHalf, m \in 0..MaxEdgesTwoLayer :
       \E g \in TwoLayerGraphs(k, m) : Entered(g) /\ remembered = <<>> /\ PageIdle

SpecSweeps == InitSweeps /\ [][Next]_vars

\* ----------------------------------------------------------- page handlers
\* loadGraphData(data, fileName): parse, lay out, render, then cache in
\* localStorage inside try { ... } catch (_) {}.
LoadGraphData(data, fileName) ==
  /\ graph' = ParseGraph(data)
  /\ result' = ComputeLayout(graph')
  /\ LET name == IF fileName # Null THEN fileName ELSE MetaName(data)
         first == SetItem(localStorage, LS_JSON, JSONStringify(data))
         second == SetItem(first.store, LS_NAME, name)
     IN /\ localStorage' = IF first.threw THEN localStorage ELSE second.store
        /\ recentChip' = IF first.threw \/ second.threw THEN recentChip
                         ELSE [text |-> name, hidden |-> FALSE]
        /\ loaded' = <<[data |-> data, name |-> name]>>
  /\ scale' = fitView(result', graph', viewport, scale)
  /\ zooms' = 0
  /\ UNCHANGED <<pc, locals, remembered, viewport, selectedNodeId, detailPanel,
                 nav>>

\* A click on a sample chip or a sample item of the menu starts a fetch.
ClickSample ==
  /\ Cardinality(fetching) < MaxFetching
  /\ \E s \in Samples :
       /\ fetching' = fetching \cup {s}
       /\ asked' = <<LoadedAs(s.data, s.label)>>
  /\ UNCHANGED <<nav, graph, pc, locals, result, remembered, localStorage, recentChip,
                 loaded, reading, viewport, scale, zooms, selectedNodeId,
                 detailPanel>>

\* .then(data => loadGraphData(data, label))
FetchLoaded ==
  \E f \in fetching :
    /\ LoadGraphData(f.data, f.label)
    /\ fetching' = fetching \ {f}
    /\ UNCHANGED <<reading, asked>>

\* .catch(() => alert(...))
FetchFailed ==
  /\ \E f \in fetching :
       /\ fetching' = fetching \ {f}
       /\ asked' = IF asked = <<LoadedAs(f.data, f.label)>> THEN <<>> ELSE asked
  /\ UNCHANGED <<nav, graph, pc, locals, result, remembered, localStorage, recentChip,
                 loaded, reading, viewport, scale, zooms, selectedNodeId,
                 detailPanel>>

\* fileInput change or drop, loadJSON: reader.readAsText(file) starts a read.
PickFile ==
  /\ Cardinality(reading) < MaxReading
  /\ \E data \in Documents, fileName \in FileNames :
       /\ reading' = reading \cup {[data |-> data, name |-> fileName]}
       /\ asked' = <<LoadedAs(data, fileName)>>
  /\ UNCHANGED <<nav, graph, pc, locals, result, remembered, localStorage, recentChip,
                 loaded, fetching, viewport, scale, zooms, selectedNodeId,
                 detailPanel>>

\* reader.onload: loadGraphData(JSON.parse(e.target.result), file.name)
OpenFile ==
  \E f \in reading :
    /\ LoadGraphData(f.data, f.name)
    /\ reading' = reading \ {f}
    /\ UNCHANGED <<fetching, asked>>

\* A click on the recent chip: if (cached) loadGraphData(JSON.parse(cached),
\* localStorage.getItem(LS_NAME)).
ClickRecent ==
  /\ MapHas(localStorage, LS_JSON)
  /\ LoadGraphData(JSONParse(GetItem(localStorage, LS_JSON)),
                   GetItem(localStorage, LS_NAME))
  /\ asked' = <<LoadedAs(JSONParse(GetItem(localStorage, LS_JSON)),
                         GetItem(localStorage, LS_NAME))>>
  /\ UNCHANGED <<fetching, reading>>

\* The page once its script has run: no graph yet, an empty localStorage, the
\* recent chip hidden, the default sample being fetched.
InitPage ==
  /\ graph = [nodes |-> <<>>, edges |-> <<>>]
  /\ pc = "done"
  /\ pred = <<>> /\ succ = <<>> /\ layer = <<>> /\ inDeg = <<>>
  /\ queue = <<>> /\ head = 0 /\ maxLayer = 0
  /\ layerNodes = <<>> /\ sweepL = 0 /\ nodeY = <<>> /\ positions = <<>>
  /\ result = None /\ remembered = <<>>
  /\ localStorage = <<>> /\ recentChip = HiddenChip
  /\ fetching = {DefaultSample} /\ loaded = <<>>
  /\ ViewIdle /\ NavIdle

NextPage ==
  ClickSample \/ FetchLoaded \/ FetchFailed \/ PickFile \/ OpenFile \/ ClickRecent

SpecPage == InitPage /\ [][NextPage]_vars


\* -------------------------------------------------------- view handlers
\* A zoom button, the wheel, the + and - keys or a pinch: zoomAround(cx, cy,
\* factor).
Zoom ==
  /\ zooms < MaxZooms
  /\ \E factor \in Factors : scale' = zoomAround(scale, factor)
  /\ zooms' = zooms + 1
  /\ UNCHANGED <<nav, graph, pc, locals, result, remembered, localStorage, recentChip,
                 fetching, loaded, reading, asked, viewport, selectedNodeId,
                 detailPanel>>

\* The fit button or the f key: fitView(), which returns at once without a
\* layout.
PressFit ==
  /\ loaded # <<>>
  /\ scale' = fitView(result, graph, viewport, scale)
  /\ zooms' = 0
  /\ UNCHANGED <<nav, graph, pc, locals, result, remembered, localStorage, recentChip,
                 fetching, loaded, reading, asked, viewport, selectedNodeId,
                 detailPanel>>

\* The window is resized: viewport.clientWidth changes.
Resize ==
  /\ \E vp \in Viewports \ {viewport} : viewport' = vp
  /\ UNCHANGED <<nav, graph, pc, locals, result, remembered, localStorage, recentChip,
                 fetching, loaded, reading, asked, scale, zooms, selectedNodeId,
                 detailPanel>>

\* A click on the card of a node of the graph on display: handleNodeClick(node).
HandleNodeClick ==
  /\ \E i \in 1..Len(graph.nodes) :
       /\ selectedNodeId' = graph.nodes[i].id
       /\ detailPanel' = openDetail(graph.nodes[i], graph)
  /\ UNCHANGED <<nav, graph, pc, locals, result, remembered, localStorage, recentChip,
                 fetching, loaded, reading, asked, viewport, scale, zooms>>

\* A click on a navigation chip of the open panel: the node of that id is
\* looked up in the graph on display and, if found, navigateToNode(target).
NavigateToNode ==
  /\ detailPanel.open /\ loaded # <<>>
  /\ \E id \in detailPanel.nav : \E i \in 1..Len(graph.nodes) :
       /\ graph.nodes[i].id = id
       /\ selectedNodeId' = id
       /\ detailPanel' = openDetail(graph.nodes[i], graph)
  /\ UNCHANGED <<nav, graph, pc, locals, result, remembered, localStorage, recentChip,
                 fetching, loaded, reading, asked, viewport, scale, zooms>>

\* Escape, a click on the background or the close button: closeDetail();
\* selectedNodeId = null.
CloseDetail ==
  /\ detailPanel' = [detailPanel EXCEPT !.open = FALSE]
  /\ selectedNodeId' = NoNode
  /\ UNCHANGED <<nav, graph, pc, locals, result, remembered, localStorage, recentChip,
                 fetching, loaded, reading, asked, viewport, scale, zooms>>

\* The page in a viewport of any of the sizes, the default sample being
\* fetched.
InitView ==
  /\ graph = [nodes |-> <<>>, edges |-> <<>>]
  /\ pc = "done"
  /\ pred = <<>> /\ succ = <<>> /\ layer = <<>> /\ inDeg = <<>>
  /\ queue = <<>> /\ head = 0 /\ maxLayer = 0
  /\ layerNodes = <<>> /\ sweepL = 0 /\ nodeY = <<>> /\ positions = <<>>
  /\ result = None /\ remembered = <<>>
  /\ localStorage = <<>> /\ recentChip = HiddenChip
  /\ fetching = {DefaultSample} /\ loaded = <<>>
  /\ reading = {} /\ asked = <<>>
  /\ viewport \in Viewports /\ scale = RatInt(1) /\ zooms = 0
  /\ selectedNodeId = NoNode /\ detailPanel = ClosedPanel
  /\ NavIdle

NextView ==
  \/ ClickSample \/ FetchLoaded
  \/ Zoom \/ PressFit \/ Resize
  \/ HandleNodeClick \/ NavigateToNode \/ CloseDetail

SpecView == InitView /\ [][NextView]_vars

\* ----------------------------------------------------- navigator handlers
\* fetch('nav_index.json') ... .then(data => { navIndex = data;
\* buildTimeline(); }): one dot per pass.
IndexLoaded ==
  /\ navFetch # <<>>
  /\ navIndex' = navFetch /\ navFetch' = <<>>
  /\ track' = Len(navFetch[1].passes)
  /\ UNCHANGED <<graph, pc, locals, result, remembered, localStorage, recentChip,
                 fetching, loaded, view, activePass, activePath, activeFile,
                 pathChips, snapButtons, openBtn>>

\* .catch(() => ...): the index is missing.
IndexFailed ==
  /\ navFetch # <<>>
  /\ navFetch' = <<>>
  /\ UNCHANGED <<graph, pc, locals, result, remembered, localStorage, recentChip,
                 fetching, loaded, view, navIndex, track, activePass, activePath,
                 activeFile, pathChips, snapButtons, openBtn>>

\* ClickPath leaving the active file as it is.
ClickPathKeepFile ==
  /\ \E i \in 1..Len(pathChips) :
       /\ activePath' = <<pathChips[i]>>
       /\ activeFile' = activeFile
       /\ pathChips' = activePass[1].paths
       /\ snapButtons' = renderSnaps(activePath')
       /\ openBtn' = updateFilePreview(activeFile')
  /\ UNCHANGED <<graph, pc, locals, result, remembered, localStorage, recentChip,
                 fetching, loaded, view, navIndex, navFetch, track, activePass>>

\* A click on a pass dot: selectPass(idx), showDetail().
SelectPass ==
  /\ \E idx \in 1..track :
       LET pass == navIndex[1].passes[idx]
       IN /\ activePass' = <<pass>>
          /\ activePath' = IF pass.paths # <<>> THEN <<pass.paths[1]>> ELSE <<>>
          /\ activeFile' = NoFile
          /\ pathChips' = pass.paths
          /\ snapButtons' = renderSnaps(activePath')
          /\ openBtn' = updateFilePreview(activeFile')
  /\ UNCHANGED <<graph, pc, locals, result, remembered, localStorage, recentChip,
                 fetching, loaded, view, navIndex, navFetch, track>>

\* A click on a path chip: activePath = p; activeFile = null; renderPaths();
\* renderSnaps(); updateFilePreview().
ClickPath ==
  /\ \E i \in 1..Len(pathChips) :
       /\ activePath' = <<pathChips[i]>>
       /\ activeFile' = NoFile
       /\ pathChips' = activePass[1].paths
       /\ snapButtons' = renderSnaps(activePath')
       /\ openBtn' = updateFilePreview(activeFile')
  /\ UNCHANGED <<graph, pc, locals, result, remembered, localStorage, recentChip,
                 fetching, loaded, view, navIndex, navFetch, track, activePass>>

\* A click on a snapshot button: activeFile = filePath; renderSnaps();
\* updateFilePreview().
ClickSnap ==
  /\ \E filePath \in snapButtons :
       /\ activeFile' = filePath
       /\ snapButtons' = renderSnaps(activePath)
       /\ openBtn' = updateFilePreview(activeFile')
  /\ UNCHANGED <<graph, pc, locals, result, remembered, localStorage, recentChip,
                 fetching, loaded, view, navIndex, navFetch, track, activePass,
                 activePath, pathChips>>

\* The navigator once its script has run: the index being fetched, nothing
\* selected, the Open-in-Viewer button disabled.
InitNav ==
  /\ graph = [nodes |-> <<>>, edges |-> <<>>]
  /\ pc = "done"
  /\ pred = <<>> /\ succ = <<>> /\ layer = <<>> /\ inDeg = <<>>
  /\ queue = <<>> /\ head = 0 /\ maxLayer = 0
  /\ layerNodes = <<>> /\ sweepL = 0 /\ nodeY = <<>> /\ positions = <<>>
  /\ result = None /\ remembered = <<>>
  /\ localStorage = <<>> /\ recentChip = HiddenChip
  /\ fetching = {} /\ loaded = <<>>
  /\ ViewIdle
  /\ navIndex = <<>> /\ \E index \in NavIndexes : navFetch = <<index>>
  /\ track = 0
  /\ activePass = <<>> /\ activePath = <<>> /\ activeFile = NoFile
  /\ pathChips = <<>> /\ snapButtons = {}
  /\ openBtn = OpenBtnMarkup

NextNav == IndexLoaded \/ IndexFailed \/ SelectPass \/ ClickPath \/ ClickSnap

SpecNav == InitNav /\ [][NextNav]_vars

\* ============================================================== properties
\* The vocabulary of the properties, taken from the graph itself and not from
\* the maps the function builds.
Ids(g) == {g.nodes[i].id : i \in 1..Len(g.nodes)}

IsValid(g, e) == e.source \in Ids(g) /\ e.target \in Ids(g)

ValidEdgeSet(g) == {e \in {g.edges[i] : i \in 1..Len(g.edges)} : IsValid(g, e)}

HasInvalidEdge(g) == \E i \in 1..Len(g.edges) : ~IsValid(g, g.edges[i])

PredSet(g, n) == {e.source : e \in {v \in ValidEdgeSet(g) : v.target = n}}

Successors(g, S) == {e.target : e \in {v \in ValidEdgeSet(g) : v.source \in S}}

RECURSIVE ReachFrom(_, _, _)
ReachFrom(g, S, k) ==
  IF k = 0 THEN {}
  ELSE LET T == Successors(g, S) IN T \cup ReachFrom(g, T, k - 1)

Acyclic(g) == \A n \in Ids(g) : n \notin ReachFrom(g, {n}, Cardinality(Ids(g)))

SetMax(S) == CHOOSE x \in S : \A y \in S : y <= x

\* The number of edges of the longest path from a source to n (acyclic g).
RECURSIVE LongestPath(_, _)
LongestPath(g, n) ==
  IF PredSet(g, n) = {} THEN 0
  ELSE SetMax({LongestPath(g, p) + 1 : p \in PredSet(g, n)})

LayersAssigned ==
  pc \in {"group", "forward1", "backward", "forward2", "passA", "passB",
          "positions", "canvas", "done"}

LayerOf(n) == MapGet(layer, n)

QueuedIds == {queue[i] : i \in 1..Len(queue)}

WithoutInvalidEdges(g) ==
  LET Valid(e) == IsValid(g, e) IN [g EXCEPT !.edges = SelectSeq(g.edges, Valid)]

OutY(id) == MapGet(result.positions, id).y

OutX(id) == MapGet(result.positions, id).x

\* Two rectangles share interior points.
Intersect(a, b) ==
  /\ a.x < b.x + b.w /\ b.x < a.x + a.w
  /\ RatLt(a.y, RatAdd(b.y, RatInt(b.h)))
  /\ RatLt(b.y, RatAdd(a.y, RatInt(a.h)))

\* C1: on an acyclic graph (invalid edges dropped) every node has a layer >= 0
\* that is 0 without predecessors and max(layer(p) + 1) over its predecessors
\* otherwise, which is the length of the longest path from a source to it.
C1_LayerIsLongestPath ==
  (LayersAssigned /\ Acyclic(graph)) =>
    \A n \in Ids(graph) :
      /\ MapHas(layer, n)
      /\ LayerOf(n) >= 0
      /\ LayerOf(n) = IF PredSet(graph, n) = {} THEN 0
                      ELSE SetMax({LayerOf(p) + 1 : p \in PredSet(graph, n)})
      /\ LayerOf(n) = LongestPath(graph, n)

\* A node whose predecessors lie in different layers has been given its layer.
C1_Witness ==
  /\ LayersAssigned /\ Acyclic(graph)
  /\ \E n \in Ids(graph) : \E p, q \in PredSet(graph, n) : LayerOf(p) < LayerOf(q)

\* C2: the positions map has exactly one entry per input node id and no other
\* entry, for acyclic and cyclic graphs, with or without invalid edges.
C2_PositionsExactlyNodes ==
  /\ pc \in {"canvas", "done"} =>
       /\ MapKeySet(positions) = Ids(graph)
       /\ Len(positions) = Len(graph.nodes)
  /\ pc = "done" =>
       /\ MapKeySet(result.positions) = Ids(graph)
       /\ Len(result.positions) = Len(graph.nodes)

\* A cyclic graph with an invalid edge and more than one layer has returned.
C2_Witness ==
  /\ pc = "done" /\ Len(graph.nodes) >= 2
  /\ ~Acyclic(graph) /\ HasInvalidEdge(graph)
  /\ result.maxLayer >= 1

\* C3: in the returned order of every layer, each node lies at least
\* verticalStep (220) below the node before it.
C3_MinVerticalStep ==
  /\ V_STEP = 220
  /\ pc = "done" =>
       \A l \in 1..Len(result.layerNodes) :
         \A i \in 1..(Len(result.layerNodes[l]) - 1) :
           RatLe(RatAdd(OutY(result.layerNodes[l][i]), RatInt(220)),
                 OutY(result.layerNodes[l][i + 1]))

\* A layer holds two nodes, the lower one placed from its predecessors, and the
\* sweeps changed the order of that layer.
C3_Witness ==
  /\ pc = "done"
  /\ \E l \in 1..Len(result.layerNodes) :
       LET ids == result.layerNodes[l] IN
       /\ Len(ids) >= 2
       /\ PredSet(graph, ids[2]) # {}
       /\ ids[2] < ids[1]

\* C4: no two returned rectangles intersect; columns are wider apart than a
\* node is wide and the vertical step is at least every height of the table.
C4_NoOverlap ==
  /\ H_STEP > NODE_W
  /\ \A t \in DOMAIN NODE_HEIGHTS \cup {Undefined} : getNodeHeight(t) <= V_STEP
  /\ pc = "done" =>
       \A i, j \in 1..Len(result.positions) :
         i # j => ~Intersect(result.positions[i].v, result.positions[j].v)

\* Two nodes of one layer and two nodes of one y in different layers returned.
C4_Witness ==
  /\ pc = "done"
  /\ \E a, b \in Ids(graph) : a # b /\ OutX(a) = OutX(b)
  /\ \E a, b \in Ids(graph) : a # b /\ OutX(a) # OutX(b) /\ OutY(a) = OutY(b)

\* C5: x = padding + layer * columnStep (60 + layer * 330): equal within a
\* layer, strictly larger for a larger layer.
C5_XIsLayerColumn ==
  pc = "done" =>
    /\ \A n \in Ids(graph) : OutX(n) = 60 + LayerOf(n) * 330
    /\ \A a, b \in Ids(graph) :
         /\ LayerOf(a) = LayerOf(b) => OutX(a) = OutX(b)
         /\ LayerOf(a) < LayerOf(b) => OutX(a) < OutX(b)

\* Layers of different sizes returned: one of two nodes, one of a single node.
C5_Witness ==
  /\ pc = "done" /\ result.maxLayer >= 1
  /\ \E l, m \in 1..Len(result.layerNodes) :
       Len(result.layerNodes[l]) = 2 /\ Len(result.layerNodes[m]) = 1

\* C6: on an acyclic graph every retained edge goes to a later layer and at
\* least one column step to the right.
C6_EdgesFlowRight ==
  (pc = "done" /\ Acyclic(graph)) =>
    \A e \in ValidEdgeSet(graph) :
      /\ LayerOf(e.target) >= LayerOf(e.source) + 1
      /\ OutX(e.target) >= OutX(e.source) + H_STEP

\* An edge that skips a layer has been laid out.
C6_Witness ==
  /\ pc = "done" /\ Acyclic(graph)
  /\ \E e \in ValidEdgeSet(graph) : LayerOf(e.target) >= LayerOf(e.source) + 2

\* C7: an invocation returns what an earlier invocation on the same graph
\* returned (layers, orders, positions, canvas size), whatever was called since.
C7_SameInputSameOutput ==
  (pc = "done" /\ remembered # <<>> /\ remembered[1].graph = graph) =>
    /\ remembered[1].result = result
    /\ remembered[1].layer = layer

\* The remembered graph, a cyclic one, has returned again after another call.
C7_Witness ==
  /\ pc = "done" /\ remembered # <<>>
  /\ remembered[1].graph = graph /\ remembered[1].later = 2
  /\ Len(graph.nodes) >= 2 /\ ~Acyclic(graph)

\* C8: for a graph without nodes the returned positions are empty and canvasW
\* and canvasH are defined numbers.
C8_EmptyGraphHasCanvas ==
  (pc = "done" /\ Len(graph.nodes) = 0) =>
    /\ result.positions = <<>>
    /\ result.canvasW # Undefined
    /\ result.canvasH # Undefined

\* C9: the invocation returns, and assigns the layers, that it would for the
\* graph with the edges of unknown endpoint removed.
C9_InvalidEdgesIgnored ==
  pc = "done" =>
    /\ result = ComputeLayout(WithoutInvalidEdges(graph))
    /\ layer = Run(WithoutInvalidEdges(graph)).layer

\* A graph returned whose edge list has an invalid edge ahead of a valid one.
C9_Witness ==
  /\ pc = "done"
  /\ \E i, j \in 1..Len(graph.edges) :
       i < j /\ ~IsValid(graph, graph.edges[i]) /\ IsValid(graph, graph.edges[j])
  /\ result.maxLayer >= 1

\* C10 as stated: every node that was never enqueued ends with layer 0.
C10_UnqueuedGetLayerZero ==
  LayersAssigned => \A n \in Ids(graph) \ QueuedIds : LayerOf(n) = 0

\* C10 amended: a node that was never enqueued ends with layer 0 when none of
\* its predecessors was dequeued, and otherwise keeps the largest layer proposed
\* to it, max(layer(p) + 1) over its dequeued predecessors p.
C10_UnqueuedKeepProposedLayer ==
  LayersAssigned =>
    \A n \in Ids(graph) \ QueuedIds :
      LET P == PredSet(graph, n) \cap QueuedIds IN
      LayerOf(n) = IF P = {} THEN 0 ELSE SetMax({LayerOf(p) + 1 : p \in P})

\* One never-enqueued node kept a proposed layer, another fell back to 0.
C10_Witness ==
  /\ LayersAssigned
  /\ \E n, m \in Ids(graph) \ QueuedIds : LayerOf(n) >= 1 /\ LayerOf(m) = 0

\* The number of steps a call can still take is bounded by Rank: the phases
\* left, and within a loop the iterations left.
PhasesLeft ==
  CASE pc = "call" -> 11 [] pc = "seed" -> 10 [] pc = "kahn" -> 9
    [] pc = "group" -> 8 [] pc = "forward1" -> 7 [] pc = "backward" -> 6
    [] pc = "forward2" -> 5 [] pc = "passA" -> 4 [] pc = "passB" -> 3
    [] pc = "positions" -> 2 [] pc = "canvas" -> 1 [] pc = "done" -> 0

IterationsLeft ==
  CASE pc = "kahn" -> Len(graph.nodes) - head
    [] pc \in {"forward1", "forward2"} -> maxLayer + 1 - sweepL
    [] pc = "backward" -> sweepL + 1
    [] OTHER -> 0

Rank == PhasesLeft * (Len(graph.nodes) + 2) + IterationsLeft

\* C11: the call returns on every graph, cyclic ones, self-loops and duplicate
\* edges included: the queue never holds a node twice, so it never outgrows
\* the node list; every step brings the call nearer to its return (the loop
\* over the queue advances head up to the end of the queue); and the call
\* does return.
C11_Terminates ==
  /\ [](/\ \A i, j \in 1..Len(queue) : queue[i] = queue[j] => i = j
        /\ QueuedIds \subseteq Ids(graph)
        /\ head <= Len(queue) /\ Len(queue) <= Len(graph.nodes)
        /\ IterationsLeft \in 0..(Len(graph.nodes) + 1))
  /\ [][Rank' < Rank]_vars
  /\ (pc = "kahn") ~> (pc = "kahn" /\ head = Len(queue))
  /\ <>(pc = "done")

\* A call returned for a graph with a self-loop and a duplicated edge, after
\* the queue was emptied without ever holding the node on the cycle.
C11_Witness ==
  /\ pc = "done" /\ head = Len(queue) /\ head >= 1
  /\ \E i \in 1..Len(graph.edges) :
       IsValid(graph, graph.edges[i]) /\ graph.edges[i].source = graph.edges[i].target
  /\ \E i, j \in 1..Len(graph.edges) :
       i < j /\ IsValid(graph, graph.edges[i]) /\ graph.edges[i] = graph.edges[j]
  /\ Len(queue) < Len(graph.nodes)

\* C12: for a non-empty graph maxLayer is the largest assigned layer, canvasW
\* is 2 * 60 + (maxLayer + 1) * 330, and canvasH is 60 above the largest
\* y + height of the returned positions.
C12_CanvasSize ==
  (pc = "done" /\ Len(graph.nodes) > 0) =>
    LET top == SetMax({LayerOf(n) : n \in Ids(graph)})
        bottom(n) == RatAdd(OutY(n), RatInt(MapGet(result.positions, n).h))
    IN /\ result.maxLayer = top
       /\ result.canvasW = 2 * 60 + (top + 1) * 330
       /\ \A n \in Ids(graph) : RatLe(RatAdd(bottom(n), RatInt(60)), result.canvasH)
       /\ \E n \in Ids(graph) : result.canvasH = RatAdd(bottom(n), RatInt(60))

\* The lowest bottom belongs to a node that is not the last one positioned,
\* in a layout of several layers.
C12_Witness ==
  /\ pc = "done" /\ Len(graph.nodes) > 0 /\ result.maxLayer >= 1
  /\ LET pos == result.positions
         bottom(i) == RatAdd(pos[i].v.y, RatInt(pos[i].v.h))
     IN \E i \in 1..Len(pos) : RatLt(bottom(Len(pos)), bottom(i))

\* The lists of a layering: one list per layer 0..maxLayer, holding each node
\* of that layer once and no other node.
IsGrouping(ln) ==
  /\ Len(ln) = maxLayer + 1
  /\ \A l \in 0..maxLayer :
       /\ \A i, j \in 1..Len(ln[l + 1]) : ln[l + 1][i] = ln[l + 1][j] => i = j
       /\ {ln[l + 1][i] : i \in 1..Len(ln[l + 1])} =
            {n \in Ids(graph) : LayerOf(n) = l}

\* C13: from grouping on, after every sweep step and in the returned object,
\* layerNodes[l] is a permutation of the nodes whose assigned layer is l.
C13_SweepsKeepLayers ==
  /\ (LayersAssigned /\ pc \notin {"group", "done"}) => IsGrouping(layerNodes)
  /\ (pc = "done" /\ Len(graph.nodes) > 0) => IsGrouping(result.layerNodes)

\* The sweeps are over and left some layer in another order than grouping
\* had given it.
C13_Witness ==
  /\ pc = "passA"
  /\ layerNodes # GroupByLayer(layer, maxLayer)

\* The orders n0, ..., nk of the nodes in which the graph is the path
\* n0 -> n1 -> ... -> nk and has no other edge.
PathOrders(g) ==
  LET n == Len(g.nodes) IN
  {p \in [1..n -> Ids(g)] :
     /\ \A i, j \in 1..n : p[i] = p[j] => i = j
     /\ Len(g.edges) = n - 1
     /\ {g.edges[i] : i \in 1..Len(g.edges)} =
          {[source |-> p[i], target |-> p[i + 1]] : i \in 1..(n - 1)}}

\* C14: when the graph is a single path n0 -> ... -> nk, declared in any
\* order, ni gets layer i, x = 60 + i * 330 and y = 60.
C14_PathIsHorizontal ==
  (pc = "done" /\ Len(graph.nodes) > 0) =>
    \A p \in PathOrders(graph) :
      \A i \in 1..Len(p) :
        /\ LayerOf(p[i]) = i - 1
        /\ OutX(p[i]) = 60 + (i - 1) * 330
        /\ OutY(p[i]) = RatInt(60)

\* A path of three nodes returned whose first node is declared last and
\* whose second edge is listed first.
C14_Witness ==
  /\ pc = "done" /\ Len(graph.nodes) = 3
  /\ \E p \in PathOrders(graph) :
       /\ p[1] = graph.nodes[3].id
       /\ graph.edges[1].source = p[2]

\* C15: in a graph without valid edges every node has layer 0 and x = 60,
\* and the i-th declared node (i from 0) has y = 60 + i * 220.
C15_NoEdgesOneColumn ==
  (pc = "done" /\ ValidEdgeSet(graph) = {}) =>
    \A i \in 1..Len(graph.nodes) :
      LET id == graph.nodes[i].id IN
      /\ LayerOf(id) = 0
      /\ OutX(id) = 60
      /\ OutY(id) = RatInt(60 + (i - 1) * 220)

\* Three nodes returned for a graph whose edges all have an unknown endpoint.
C15_Witness ==
  /\ pc = "done" /\ Len(graph.nodes) = 3
  /\ Len(graph.edges) >= 2 /\ ValidEdgeSet(graph) = {}

\* C16: no step of the call changes the graph it was given: the node list,
\* the edge list and every node and edge in them stay as they were.
C16_InputUnchanged == [][graph' = graph]_vars

\* A call returned for a graph with valid and invalid edges, after sorting a
\* layer into another order than the declaration order.
C16_Witness ==
  /\ pc = "done" /\ HasInvalidEdge(graph) /\ ValidEdgeSet(graph) # {}
  /\ \E l \in 1..Len(result.layerNodes) :
       \E i, j \in 1..Len(result.layerNodes[l]) :
         i < j /\ result.layerNodes[l][i] > result.layerNodes[l][j]

\* C20: the queue starts with the nodes without predecessors in declaration
\* order; it never holds a node twice; every predecessor of a queued node
\* stands before it in the queue and has been dequeued; and for an acyclic
\* graph the finished queue holds every node exactly once.
C20_QueueDiscipline ==
  pc \notin {"call", "seed"} =>
    LET NoPred(id) == PredSet(graph, id) = {}
        sources == SelectSeq(NodeIds(graph.nodes), NoPred)
    IN /\ Len(queue) >= Len(sources)
       /\ SubSeq(queue, 1, Len(sources)) = sources
       /\ \A i, j \in 1..Len(queue) : queue[i] = queue[j] => i = j
       /\ \A i \in 1..Len(queue) :
            \A q \in PredSet(graph, queue[i]) :
              \E j \in 1..head : j < i /\ queue[j] = q
       /\ (LayersAssigned /\ Acyclic(graph)) =>
            /\ Len(queue) = Len(graph.nodes)
            /\ QueuedIds = Ids(graph)

\* The loop is at a node that was enqueued by the later of its two
\* predecessors, in a graph whose first declared node is no source.
C20_Witness ==
  /\ pc = "kahn" /\ head < Len(queue)
  /\ Cardinality(PredSet(graph, queue[head + 1])) = 2
  /\ PredSet(graph, graph.nodes[1].id) # {}

PosIn(ids, x) == (CHOOSE i \in 1..Len(ids) : ids[i] = x) - 1

ListSet(ids) == {ids[i] : i \in 1..Len(ids)}

\* The neighbours of id that stand in the list adjacent, once per edge, in edge
\* order: sources of the edges into id (back = FALSE) or targets of the edges
\* out of id (back = TRUE).
AdjacentEnds(id, adjacent, back) ==
  LET Joins(e) == /\ IsValid(graph, e)
                  /\ IF back THEN e.source = id /\ e.target \in ListSet(adjacent)
                             ELSE e.target = id /\ e.source \in ListSet(adjacent)
      es == SelectSeq(graph.edges, Joins)
  IN [i \in 1..Len(es) |-> IF back THEN es[i].target ELSE es[i].source]

RECURSIVE SumPosSeq(_, _)
SumPosSeq(xs, adjacent) ==
  IF xs = <<>> THEN 0 ELSE PosIn(adjacent, Head(xs)) + SumPosSeq(Tail(xs), adjacent)

RECURSIVE SumPosSet(_, _)
SumPosSet(S, adjacent) ==
  IF S = {} THEN 0
  ELSE LET x == CHOOSE x \in S : TRUE
       IN PosIn(adjacent, x) + SumPosSet(S \ {x}, adjacent)

\* A mean as the pair of its sum and count; count 0 stands for no neighbour.
\* The mean over the edges: a neighbour counts once per edge.
EdgeMean(id, adjacent, back) ==
  LET xs == AdjacentEnds(id, adjacent, back)
  IN [sum |-> SumPosSeq(xs, adjacent), count |-> Len(xs)]

\* The mean over the neighbours: a neighbour counts once.
NeighbourMean(id, adjacent, back) ==
  LET S == ListSet(AdjacentEnds(id, adjacent, back))
  IN [sum |-> SumPosSet(S, adjacent), count |-> Cardinality(S)]

MeanLess(a, b) ==
  a.count > 0 /\ (b.count = 0 \/ a.sum * b.count < b.sum * a.count)

MeanEqual(a, b) == ~MeanLess(a, b) /\ ~MeanLess(b, a)

\* after holds the nodes of before in non-decreasing order of Mean, the nodes
\* without a mean last, and nodes of equal mean in the order before had.
StablySorted(before, after, Mean(_)) ==
  /\ Len(after) = Len(before) /\ ListSet(after) = ListSet(before)
  /\ \A i, j \in 1..Len(after) :
       i < j => /\ after[i] # after[j]
                /\ ~MeanLess(Mean(after[j]), Mean(after[i]))
                /\ Mean(after[i]).count = 0 => Mean(after[j]).count = 0
  /\ \A i, j \in 1..Len(before) :
       (i < j /\ MeanEqual(Mean(before[i]), Mean(before[j]))) =>
         PosIn(after, before[i]) < PosIn(after, before[j])

\* One iteration of a sweep, sorting layer sweepL by its adjacent layer.
SweepStep == pc \in {"forward1", "backward", "forward2"} /\ pc' = pc

SweepAdjacent ==
  IF pc = "backward" THEN LayerAt(layerNodes, sweepL + 1)
  ELSE LayerAt(layerNodes, sweepL - 1)

C17_LastOpenedIsRemembered ==
  loaded # <<>> =>
    /\ MapHas(localStorage, LS_JSON)
    /\ MapGet(localStorage, LS_JSON) = JSONStringify(loaded[1].data)
    /\ GetItem(localStorage, LS_NAME) = loaded[1].name
    /\ recentChip = [text |-> loaded[1].name, hidden |-> FALSE]
    /\ ParseGraph(JSONParse(MapGet(localStorage, LS_JSON))) = graph


\* The other ends of the valid edges at id, once per edge, in edge order:
\* sources of the edges into id (back = FALSE), targets of the edges out of id
\* (back = TRUE).
EdgeEnds(id, back) ==
  LET Joins(e) == /\ IsValid(graph, e)
                  /\ IF back THEN e.source = id ELSE e.target = id
      es == SelectSeq(graph.edges, Joins)
  IN [i \in 1..Len(es) |-> IF back THEN es[i].target ELSE es[i].source]

RECURSIVE SumSeqY(_, _)
SumSeqY(xs, ys) ==
  IF xs = <<>> THEN RatInt(0) ELSE RatAdd(MapGet(ys, Head(xs)), SumSeqY(Tail(xs), ys))

RECURSIVE SumSetY(_, _)
SumSetY(S, ys) ==
  IF S = {} THEN RatInt(0)
  ELSE LET x == CHOOSE x \in S : TRUE
       IN RatAdd(MapGet(ys, x), SumSetY(S \ {x}, ys))

\* The mean y over the edges at id: a neighbour counts once per edge.
EdgeMeanY(id, ys, back) ==
  RatDiv(SumSeqY(EdgeEnds(id, back), ys), Len(EdgeEnds(id, back)))

\* The mean y over the neighbours of id: a neighbour counts once.
NeighbourMeanY(id, ys, back) ==
  LET S == ListSet(EdgeEnds(id, back)) IN RatDiv(SumSetY(S, ys), Cardinality(S))

\* The cursor of the top-down pass at place i (from 1) of the layer ids.
CursorAt(ids, i, ys) ==
  IF i = 1 THEN RatInt(PAD) ELSE RatAdd(MapGet(ys, ids[i - 1]), RatInt(V_STEP))

\* The rule of the top-down pass for the node at place i of layer l, with
\* ideal the mean of the y of its predecessors.
PlacedByRule(l, i, ideal) ==
  LET ids == LayerAt(layerNodes, l)
      id == ids[i]
      cursor == CursorAt(ids, i, nodeY)
  IN /\ \A p \in PredSet(graph, id) : LayerOf(p) < l /\ MapHas(nodeY, p)
     /\ MapGet(nodeY, id) = IF PredSet(graph, id) = {} THEN cursor
                            ELSE RatMax(cursor, ideal)
     /\ (i = 1 /\ PredSet(graph, id) # {}) => MapGet(nodeY, id) = ideal

RatDist(a, b) ==
  LET diff == RatAdd(a, [n |-> -b.n, d |-> b.d])
  IN [n |-> Abs(diff.n), d |-> diff.d]

\* The node id, at y in ys, has room to move toward the y target: down with
\* more than V_STEP to the node below it in its layer, or up with y above PAD
\* and more than V_STEP to the node above it.
HasRoomToward(id, target, ys) ==
  LET ids == LayerAt(layerNodes, LayerOf(id))
      i == PosIn(ids, id) + 1
      y == MapGet(ys, id)
  IN IF RatLt(y, target)
     THEN i = Len(ids) \/ RatLt(RatAdd(y, RatInt(V_STEP)), MapGet(ys, ids[i + 1]))
     ELSE /\ RatLt(RatInt(PAD), y)
          /\ i = 1 \/ RatLt(RatAdd(MapGet(ys, ids[i - 1]), RatInt(V_STEP)), y)

\* C22: the backward pass moves a node with successors strictly closer to the
\* mean y of its successors whenever its y differs from that mean and it has
\* room to move toward it without going above PAD or within V_STEP of a
\* neighbour in its layer.
C22_PulledTowardSuccessors ==
  [][pc = "passB" =>
       \A id \in Ids(graph) :
         LET ideal == EdgeMeanY(id, nodeY, TRUE)
         IN (/\ EdgeEnds(id, TRUE) # <<>>
             /\ MapGet(nodeY, id) # ideal
             /\ HasRoomToward(id, ideal, nodeY))
            => RatLt(RatDist(MapGet(nodeY', id), ideal),
                     RatDist(MapGet(nodeY, id), ideal))]_vars


\* The graph g with a copy of its edge i put in as edge k + 1.
WithCopy(g, i, k) ==
  [g EXCEPT !.edges = SubSeq(g.edges, 1, k) \o <<g.edges[i]>>
                      \o SubSeq(g.edges, k + 1, Len(g.edges))]

\* C23: a copy of a valid edge of an acyclic graph, added at any place of the
\* edge list, changes the layer of no node.
C23_DuplicateEdgeKeepsLayers ==
  (pc = "done" /\ Acyclic(graph)) =>
    \A i \in 1..Len(graph.edges) : \A k \in 0..Len(graph.edges) :
      IsValid(graph, graph.edges[i]) =>
        LET again == Run(WithCopy(graph, i, k)).layer
        IN \A n \in Ids(graph) : MapGet(again, n) = LayerOf(n)

\* A layout has returned for an acyclic graph with an edge between two known
\* nodes, whose target has a second predecessor one layer further up: the
\* target's layer is the larger of two proposals, with and without the copy.
C23_Witness ==
  /\ pc = "done" /\ Acyclic(graph)
  /\ \E i \in 1..Len(graph.edges) :
       /\ IsValid(graph, graph.edges[i])
       /\ LayerOf(graph.edges[i].target) = LayerOf(graph.edges[i].source) + 2
       /\ Len(Run(WithCopy(graph, i, 0)).result.layerNodes) = maxLayer + 1


\* C24: for a non-empty graph every rectangle lies inside the canvas with a
\* margin of PAD on all four sides, and no node has a y above PAD after the
\* top-down pass or after the backward pass.
C24_InsideCanvasMargins ==
  /\ (pc \in {"passB", "positions"} /\ Len(graph.nodes) > 0) =>
       \A id \in Ids(graph) : RatLe(RatInt(60), MapGet(nodeY, id))
  /\ (pc = "done" /\ Len(graph.nodes) > 0) =>
       \A id \in Ids(graph) :
         LET r == MapGet(result.positions, id)
         IN /\ r.x >= 60
            /\ RatLe(RatInt(60), r.y)
            /\ r.x + r.w <= result.canvasW - 60
            /\ RatLe(RatAdd(r.y, RatInt(r.h)), RatAdd(result.canvasH, RatInt(-60)))

\* A layout of several columns has returned with a rectangle in the last
\* column and a rectangle whose bottom is not the lowest one.
C24_Witness ==
  /\ pc = "done" /\ Len(graph.nodes) > 0 /\ result.maxLayer >= 1
  /\ \E a, b \in Ids(graph) :
       /\ OutX(a) = 60 + result.maxLayer * 330
       /\ RatLt(RatAdd(OutY(b), RatInt(MapGet(result.positions, b).h)),
                RatAdd(result.canvasH, RatInt(-60)))


\* C30: for a non-empty graph, with or without cycles, every layer from 0 to
\* the largest assigned layer holds a node, and so does every list of
\* layerNodes once the nodes are grouped.
C30_NoEmptyLayer ==
  (LayersAssigned /\ Len(graph.nodes) > 0) =>
    /\ \A l \in 0..SetMax({LayerOf(n) : n \in Ids(graph)}) :
         \E n \in Ids(graph) : LayerOf(n) = l
    /\ pc # "group" =>
         /\ maxLayer = SetMax({LayerOf(n) : n \in Ids(graph)})
         /\ Len(layerNodes) = maxLayer + 1
         /\ \A l \in 0..maxLayer : LayerAt(layerNodes, l) # <<>>

\* The nodes of a graph with a cycle are grouped into several layers, the
\* last of them holding a node that never entered the queue.
C30_Witness ==
  /\ pc = "forward1" /\ ~Acyclic(graph) /\ maxLayer >= 1
  /\ \E n \in Ids(graph) : n \notin QueuedIds /\ LayerOf(n) = maxLayer


\* C26: once no load is under way, the graph on display is the one the user
\* asked for last (a sample, a file or the recent graph), whatever the order
\* in which the fetches and reads completed; the default sample loaded at
\* startup never replaces it.
C26_LastRequestedIsDisplayed ==
  (fetching = {} /\ reading = {} /\ asked # <<>>) =>
    /\ loaded = asked
    /\ graph = ParseGraph(asked[1].data)

\* C27: the scale of the view is within [SCALE_MIN, SCALE_MAX] = [0.06, 4]
\* after any zoom, fit and load.
C27_ScaleWithinBounds ==
  /\ RatLe(Rat(6, 100), scale)
  /\ RatLe(scale, RatInt(4))

\* C28: selectedNodeId, when not null, is the id of a node of the graph on
\* display, and an open detail panel shows a node of the graph on display.
C28_SelectionOfCurrentGraph ==
  /\ selectedNodeId # NoNode => selectedNodeId \in Ids(graph)
  /\ detailPanel.open =>
       \E i \in 1..Len(graph.nodes) : graph.nodes[i] = detailPanel.node[1]


\* The files of the snapshots of a path, Before and After.
SnapshotFiles(path) ==
  UNION {{path.snapshots[i].before, path.snapshots[i].after} :
           i \in 1..Len(path.snapshots)} \ {NoFile}

====
